---- MODULE Spec2Model ----
(***************************************************************************)
(* Model of the testlog crate (src/src/lib.rs): the macro test_log!, whose  *)
(* single rule expands a call into                                         *)
(*                                                                         *)
(*     if cfg!(test) { eprintln!(<the arguments of the call>); }           *)
(*                                                                         *)
(* expanded at call sites that live in several compilation units and are   *)
(* executed by several threads of one process.  cfg!(test) is the flag of  *)
(* the unit that holds the call site.  eprintln! is taken with the         *)
(* behaviour the standard library documents: the arguments are evaluated,  *)
(* the process-wide standard error handle is locked, the pieces of the     *)
(* formatted message (newline included) are written unbuffered one after   *)
(* the other, the lock is released; a write to a closed descriptor (EBADF) *)
(* is treated as a success, any other write error makes eprintln! panic.   *)
(***************************************************************************)
EXTENDS Integers, Sequences, FiniteSets, TLC

VARIABLES
    isTest,     \* unit -> BOOLEAN: cfg(test) of each compilation unit
    fd,         \* state of the standard error descriptor
    pc,         \* thread -> position of the thread
    site,       \* thread -> call site of the invocation in progress
    idx,        \* thread -> next piece the invocation in progress writes
    lock,       \* holder of the standard error lock, or NoThread
    stderr,     \* bytes received by standard error, oldest first
    stdout,     \* bytes received by standard output, oldest first
    evals,      \* thread -> number of argument evaluations with an effect
    calls,      \* thread -> history of its invocations (site, branch taken)
    stmts,      \* number of statements executed so far, all threads
    stripped    \* the same program with its test_log! call sites removed

vars == <<isTest, fd, pc, site, idx, lock, stderr, stdout, evals, calls,
          stmts, stripped>>

\* Statements the threads execute altogether.
MaxStmts == 2

Units == {"testlog", "app"}

\* The unit that defines (exports) the macro.
DefiningUnit == "testlog"

Threads == {"t1", "t2"}

NoThread == "none"

\* No invocation under way.
NoSite == "none"

----------------------------------------------------------------------------
(* Values and their Display, templates and their pieces.                   *)

IntArg(n) == [k |-> "int", n |-> n, s |-> <<>>]
StrArg(s) == [k |-> "str", n |-> 0, s |-> s]

DigitChar(d) == <<"0", "1", "2", "3", "4", "5", "6", "7", "8", "9">>[d + 1]

RECURSIVE NatToStr(_)
NatToStr(n) ==
    IF n < 10 THEN <<DigitChar(n)>>
    ELSE NatToStr(n \div 10) \o <<DigitChar(n % 10)>>

\* Display for the integer types: sign, then decimal digits.
IntToStr(n) == IF n < 0 THEN <<"-">> \o NatToStr(-n) ELSE NatToStr(n)

\* Display of one argument value.
Display(v) == IF v.k = "int" THEN IntToStr(v.n) ELSE v.s

LitTok(c) == [kind |-> "lit", ch |-> c, arg |-> 0]
ArgTok(n) == [kind |-> "arg", ch |-> "", arg |-> n]

\* The tokens of tmpl from position i on; n placeholders were seen before i.
\* "{{" and "}}" are the escapes of the braces, "{}" is the next positional
\* placeholder.
RECURSIVE ParseFrom(_, _, _)
ParseFrom(tmpl, i, n) ==
    IF i > Len(tmpl) THEN <<>>
    ELSE IF i < Len(tmpl) /\ tmpl[i] = "{" /\ tmpl[i + 1] = "{"
        THEN <<LitTok("{")>> \o ParseFrom(tmpl, i + 2, n)
    ELSE IF i < Len(tmpl) /\ tmpl[i] = "}" /\ tmpl[i + 1] = "}"
        THEN <<LitTok("}")>> \o ParseFrom(tmpl, i + 2, n)
    ELSE IF i < Len(tmpl) /\ tmpl[i] = "{" /\ tmpl[i + 1] = "}"
        THEN <<ArgTok(n + 1)>> \o ParseFrom(tmpl, i + 2, n + 1)
    ELSE <<LitTok(tmpl[i])>> \o ParseFrom(tmpl, i + 1, n)

\* Number of placeholders of a template.
Arity(tmpl) ==
    Cardinality({j \in DOMAIN ParseFrom(tmpl, 1, 0) :
                    ParseFrom(tmpl, 1, 0)[j].kind = "arg"})

\* The pieces a token sequence is written in: every maximal run of literal
\* characters is one piece, every placeholder is one piece, the Display of
\* its argument.
RECURSIVE Group(_, _, _)
Group(toks, args, run) ==
    IF toks = <<>> THEN (IF run = <<>> THEN <<>> ELSE <<run>>)
    ELSE IF Head(toks).kind = "lit"
        THEN Group(Tail(toks), args, Append(run, Head(toks).ch))
    ELSE (IF run = <<>> THEN <<>> ELSE <<run>>)
         \o <<Display(args[Head(toks).arg])>>
         \o Group(Tail(toks), args, <<>>)

RECURSIVE Flatten(_)
Flatten(ps) == IF ps = <<>> THEN <<>> ELSE Head(ps) \o Flatten(Tail(ps))

\* format!(tmpl, args...): the text of the message, no terminator.
Format(tmpl, args) == Flatten(Group(ParseFrom(tmpl, 1, 0), args, <<>>))

\* Faulty variant: eprint! in place of eprintln!, no terminator.
TerminatorNone == <<>>

\* eprintln! appends one newline to the template before it is formatted.
Terminator == <<"\n">>

\* The pieces eprintln!(tmpl, args...) writes.
PiecesNl(tmpl, args) == Group(ParseFrom(tmpl \o Terminator, 1, 0), args, <<>>)

----------------------------------------------------------------------------
(* The call sites of the program.                                          *)

TmplDebugInfo ==
    <<"D", "e", "b", "u", "g", " ", "i", "n", "f", "o", ":", " ", "{", "}">>

TmplMultiple ==
    <<"M", "u", "l", "t", "i", "p", "l", "e", " ", "v", "a", "l", "u", "e",
      "s", ":", " ", "{", "}", " ", "a", "n", "d", " ", "{", "}">>

TmplProcessing ==
    <<"P", "r", "o", "c", "e", "s", "s", "i", "n", "g", " ", "v", "a", "l",
      "u", "e", ":", " ", "{", "}">>

\* unit: the compilation unit the call site is in; effect: 1 when the
\* evaluation of the argument expressions has an effect of its own.
Sites ==
    [ info  |-> [unit |-> "testlog", tmpl |-> TmplDebugInfo,
                 args |-> <<IntArg(5)>>, effect |-> 0],
      multi |-> [unit |-> "testlog", tmpl |-> TmplMultiple,
                 args |-> <<IntArg(42), StrArg(<<"t", "e", "s", "t">>)>>,
                 effect |-> 0],
      proc  |-> [unit |-> "app", tmpl |-> TmplProcessing,
                 args |-> <<IntArg(-7)>>, effect |-> 1] ]

\* A call site compiles only when its template has as many placeholders as
\* the call has arguments.
SiteIds == {s \in DOMAIN Sites : Len(Sites[s].args) = Arity(Sites[s].tmpl)}

\* format_args! splits the template of every call site when the call site is
\* compiled: the pieces of each call site.
SitePieces == [s \in SiteIds |-> PiecesNl(Sites[s].tmpl, Sites[s].args)]

Pieces(s) == SitePieces[s]

----------------------------------------------------------------------------
(* The state machine.                                                      *)

\* A byte on a stream, with the invocation it comes from: thread by, its
\* k-th invocation.  The host program's own output has k = 0.
Byte(c, t, k) == [ch |-> c, by |-> t, k |-> k]

Tagged(text, t, k) == [i \in 1..Len(text) |-> Byte(text[i], t, k)]

\* What the program with its call sites removed has done so far.
StrippedInit ==
    [stdout |-> <<>>, stderr |-> <<>>,
     evals |-> [t \in Threads |-> 0], pc |-> [t \in Threads |-> "ready"]]

Init ==
    /\ isTest \in [Units -> BOOLEAN]
    /\ fd = "open"
    /\ pc = [t \in Threads |-> "ready"]
    /\ site = [t \in Threads |-> NoSite]
    /\ idx = [t \in Threads |-> 0]
    /\ lock = NoThread
    /\ stderr = <<>>
    /\ stdout = <<>>
    /\ evals = [t \in Threads |-> 0]
    /\ calls = [t \in Threads |-> <<>>]
    /\ stmts = 0
    /\ stripped = StrippedInit

\* Faulty variant: cfg!(test) taken from the unit that exports the macro.
CfgTestOfDefiningUnit(u) == isTest[DefiningUnit]

\* Faulty variant: a flag that is true for the first statement of a run only.
CfgTestFirstCallOnly(u) == isTest[u] /\ stmts = 0

\* Faulty variant: a flag that is always true.
CfgTestAlways(u) == TRUE

\* cfg!(test) in the expansion: the flag of the unit u of the call site.
CfgTest(u) == isTest[u]

\* Faulty variant: the arguments are evaluated before the branch is taken.
EvalArgsAlways(t, s, taken) == evals[t] + Sites[s].effect

\* The arguments are evaluated inside the branch, by eprintln!.
EvalArgs(t, s, taken) == IF taken THEN evals[t] + Sites[s].effect ELSE evals[t]

\* Faulty variant: the caller goes on while its write is still under way.
CallDoneEarly(t) == pc[t] \in {"ready", "lock", "write"}

\* The statement of the caller before is finished: the block of the
\* expansion has been left.
CallDone(t) == pc[t] = "ready"

\* test_log!(...) at call site s, executed by thread t.
Call(t, s) ==
    /\ CallDone(t)
    /\ stmts < MaxStmts
    /\ LET taken == CfgTest(Sites[s].unit) IN
        /\ calls' = [calls EXCEPT ![t] = Append(@, [site |-> s, took |-> taken])]
        /\ evals' = [evals EXCEPT ![t] = EvalArgs(t, s, taken)]
        /\ pc' = [pc EXCEPT ![t] = IF taken THEN "lock" ELSE "ready"]
        /\ site' = [site EXCEPT ![t] = IF taken THEN s ELSE @]
        /\ idx' = [idx EXCEPT ![t] = IF taken THEN 1 ELSE @]
    /\ stmts' = stmts + 1
    /\ UNCHANGED <<isTest, fd, lock, stderr, stdout, stripped>>

\* Faulty variant: no lock around the write.
LockFreeAlways == TRUE

\* The standard error handle is locked for the whole message.
LockFree == lock = NoThread

\* eprintln!: io::stderr().lock()
Lock(t) ==
    /\ pc[t] = "lock"
    /\ LockFree
    /\ lock' = t
    /\ pc' = [pc EXCEPT ![t] = "write"]
    /\ UNCHANGED <<isTest, fd, site, idx, stderr, stdout, evals, calls, stmts,
                   stripped>>

\* Faulty variant: println! in place of eprintln!.
StreamStdout == "stdout"

\* The stream eprintln! writes.
Stream == "stderr"

\* Faulty variant: a writer that keeps the bytes in a buffer nobody flushes.
WriteBuffered(text) == <<>>

\* Standard error is not buffered: a write hands its bytes to the descriptor.
WriteThrough(text) == text

\* Faulty variant: every write error is dropped, as by
\* let _ = writeln!(io::stderr(), ...).
OutcomeSwallowAll(f) == IF f = "open" THEN "ok" ELSE "ignored"

\* What a write to the descriptor in state f comes to: the bytes are taken;
\* or the descriptor is closed (EBADF), which standard error reports as a
\* success; or the write fails with an error.
Outcome(f) ==
    IF f = "open" THEN "ok" ELSE IF f = "closed" THEN "ignored" ELSE "error"

\* eprintln!: the write of the next piece of the message.  On an error the
\* write ends, the lock is released and eprintln! panics in the caller.
WritePiece(t) ==
    /\ pc[t] = "write"
    /\ LET ps    == Pieces(site[t])
           bytes == Tagged(WriteThrough(ps[idx[t]]), t, Len(calls[t]))
           taken == IF Outcome(fd) = "ok" THEN bytes ELSE <<>>
       IN
        IF Outcome(fd) = "error"
        THEN /\ lock' = IF lock = t THEN NoThread ELSE lock
             /\ pc' = [pc EXCEPT ![t] = "panicked"]
             /\ UNCHANGED <<idx, stderr, stdout>>
        ELSE /\ stderr' = IF Stream = "stderr" THEN stderr \o taken ELSE stderr
             /\ stdout' = IF Stream = "stdout" THEN stdout \o taken ELSE stdout
             /\ idx' = [idx EXCEPT ![t] = @ + 1]
             /\ pc' = [pc EXCEPT ![t] = IF idx[t] = Len(ps) THEN "unlock" ELSE @]
             /\ UNCHANGED lock
    /\ UNCHANGED <<isTest, fd, site, evals, calls, stmts, stripped>>

\* eprintln!: the lock guard is dropped, the statement is finished and its
\* temporaries are gone.
Unlock(t) ==
    /\ pc[t] = "unlock"
    /\ lock' = IF lock = t THEN NoThread ELSE lock
    /\ pc' = [pc EXCEPT ![t] = "ready"]
    /\ site' = [site EXCEPT ![t] = NoSite]
    /\ idx' = [idx EXCEPT ![t] = 0]
    /\ UNCHANGED <<isTest, fd, stderr, stdout, evals, calls, stmts, stripped>>

HostByte == Byte("h", "host", 0)

\* A statement of the caller that is no test_log!: it prints to standard
\* output.  The program without the call sites executes it too.
HostStmt(t) ==
    /\ CallDone(t)
    /\ stmts < MaxStmts
    /\ stdout' = Append(stdout, HostByte)
    /\ stripped' = [stripped EXCEPT !.stdout = Append(@, HostByte)]
    /\ stmts' = stmts + 1
    /\ UNCHANGED <<isTest, fd, pc, site, idx, lock, stderr, evals, calls>>

\* The caller returns: the test passes.
Return(t) ==
    /\ CallDone(t)
    /\ pc' = [pc EXCEPT ![t] = "done"]
    /\ stripped' = [stripped EXCEPT !.pc[t] = "done"]
    /\ UNCHANGED <<isTest, fd, site, idx, lock, stderr, stdout, evals, calls,
                   stmts>>

\* The caller fails: panic!(...) or a failed assertion of the test.
Fail(t) ==
    /\ CallDone(t)
    /\ pc' = [pc EXCEPT ![t] = "failed"]
    /\ stripped' = [stripped EXCEPT !.pc[t] = "failed"]
    /\ UNCHANGED <<isTest, fd, site, idx, lock, stderr, stdout, evals, calls,
                   stmts>>

\* The environment: standard error is closed, or its device fills up.
Break(how) ==
    /\ fd = "open"
    /\ fd' = how
    /\ UNCHANGED <<isTest, pc, site, idx, lock, stderr, stdout, evals, calls,
                   stmts, stripped>>

Next ==
    \/ \E t \in Threads, s \in SiteIds : Call(t, s)
    \/ \E t \in Threads : Lock(t)
    \/ \E t \in Threads : WritePiece(t)
    \/ \E t \in Threads : Unlock(t)
    \/ \E t \in Threads : HostStmt(t)
    \/ \E t \in Threads : Return(t)
    \/ \E t \in Threads : Fail(t)
    \/ \E how \in {"closed", "full"} : Break(how)

Spec == Init /\ [][Next]_vars

\* A step of an invocation under way: of the thread that holds the lock, or
\* of a thread that takes the free lock.
Emit == \E t \in Threads : Lock(t) \/ WritePiece(t) \/ Unlock(t)

\* Threads inside eprintln! are scheduled: while one of them can take a
\* step, one of them does.
FairSpec == Spec /\ WF_vars(Emit)

----------------------------------------------------------------------------
(* What the claims are stated with.                                        *)

\* The bytes of stream st that come from the k-th invocation of thread t.
BytesOf(st, t, k) == SelectSeq(st, LAMBDA b : b.by = t /\ b.k = k)

\* The bytes of stream st that come from invocations of thread t.
BytesOfThread(st, t) == SelectSeq(st, LAMBDA b : b.by = t)

Text(bytes) == [i \in 1..Len(bytes) |-> bytes[i].ch]

SiteOf(t, k) == Sites[calls[t][k].site]

\* The k-th invocation of t is in a unit built in test mode.
InTestUnit(t, k) == isTest[SiteOf(t, k).unit]

\* The line of each call site: the text the formatter makes of its template
\* and arguments, then the line terminator.
SiteLines ==
    [s \in SiteIds |-> Format(Sites[s].tmpl, Sites[s].args) \o <<"\n">>]

\* The line the k-th invocation of t is to emit.
LineOf(t, k) == SiteLines[calls[t][k].site]

InCall(t) == pc[t] \in {"lock", "write", "unlock"}

\* The k-th invocation of t has returned to its caller.
Returned(t, k) ==
    /\ k \in 1..Len(calls[t])
    /\ k < Len(calls[t]) \/ pc[t] \in {"ready", "done", "failed"}

Invocations == {<<t, k>> \in Threads \X (1..MaxStmts + 1) : k <= Len(calls[t])}

\* What can be observed of the program.
Obs == [stdout |-> stdout, stderr |-> stderr, evals |-> evals, pc |-> pc]

----------------------------------------------------------------------------
(* The claims.                                                             *)

LineDebugInfo5 ==
    <<"D", "e", "b", "u", "g", " ", "i", "n", "f", "o", ":", " ", "5", "\n">>

LineMultiple42Test ==
    <<"M", "u", "l", "t", "i", "p", "l", "e", " ", "v", "a", "l", "u", "e",
      "s", ":", " ", "4", "2", " ", "a", "n", "d", " ", "t", "e", "s", "t",
      "\n">>

\* C1: while standard error takes the writes, every invocation that has
\* returned and whose call site is in a unit built in test mode has put on
\* standard error exactly the text the formatter makes of its template and
\* arguments followed by one line terminator, and nothing else; for
\* "Debug info: {}" with 5 that is "Debug info: 5", for
\* "Multiple values: {} and {}" with 42 and "test" it is
\* "Multiple values: 42 and test".
C1_EnabledEmitsOneFormattedLine ==
    fd = "open" =>
        \A <<t, k>> \in Invocations :
            (Returned(t, k) /\ InTestUnit(t, k)) =>
                LET out == Text(BytesOf(stderr, t, k)) IN
                /\ out = LineOf(t, k)
                /\ calls[t][k].site = "info" => out = LineDebugInfo5
                /\ calls[t][k].site = "multi" => out = LineMultiple42Test

C1_Witness ==
    /\ fd = "open"
    /\ \E t \in Threads :
        /\ Len(calls[t]) = 2
        /\ Returned(t, 2)
        /\ calls[t][1].site = "multi" /\ calls[t][2].site = "proc"
        /\ InTestUnit(t, 1) /\ InTestUnit(t, 2)
        /\ Len(stderr) > Len(LineMultiple42Test)

\* The step is an invocation by t at a call site of a unit not in test mode.
DisabledCallStep(t) ==
    /\ Len(calls'[t]) = Len(calls[t]) + 1
    /\ ~isTest[Sites[calls'[t][Len(calls'[t])].site].unit]

\* C2: an invocation at a call site of a unit that is not built in test
\* mode is one step that changes neither standard error nor standard output,
\* evaluates no argument expression, takes no lock, and leaves the caller at
\* its next statement.
C2_DisabledCallHasNoEffect ==
    [][\A t \in Threads :
        DisabledCallStep(t) =>
            /\ stderr' = stderr
            /\ stdout' = stdout
            /\ evals' = evals
            /\ lock' = lock
            /\ fd' = fd
            /\ pc[t] = "ready" /\ pc'[t] = "ready"]_vars

C2_Witness ==
    /\ ~isTest["app"]
    /\ \E t \in Threads :
        /\ Len(calls[t]) = 2
        /\ calls[t][1].site = "proc" /\ calls[t][2].site = "proc"
        /\ evals[t] = 0
        /\ pc[t] = "done"
        /\ stderr = <<>>

\* C3: standard output never holds a byte of an invocation: all it holds is
\* the output of the caller's own statements.
C3_NoStdoutLeak == \A i \in 1..Len(stdout) : stdout[i] = HostByte

C3_Witness ==
    /\ stdout # <<>>
    /\ \E t \in Threads :
        /\ Len(calls[t]) = 1
        /\ Returned(t, 1)
        /\ InTestUnit(t, 1)
        /\ Text(BytesOf(stderr, t, 1)) = LineOf(t, 1)

\* The lines thread t is to have emitted by its invocations 1..n, in the
\* order of the invocations.
RECURSIVE LinesUpTo(_, _)
LinesUpTo(t, n) ==
    IF n = 0 THEN <<>>
    ELSE LinesUpTo(t, n - 1)
         \o (IF InTestUnit(t, n) THEN LineOf(t, n) ELSE <<>>)

\* C4: while standard error takes the writes, when a test has failed after
\* its invocations, every line of every invocation it made in test mode is
\* complete on standard error, and once the test has failed no byte of its
\* invocations is added to standard error any more.
C4_EmissionPrecedesFailure ==
    /\ [](fd = "open" =>
            \A t \in Threads :
                pc[t] = "failed" =>
                    \A k \in 1..Len(calls[t]) :
                        InTestUnit(t, k) =>
                            Text(BytesOf(stderr, t, k)) = LineOf(t, k))
    /\ [][\A t \in Threads :
            pc[t] = "failed" =>
                BytesOfThread(stderr', t) = BytesOfThread(stderr, t)]_vars

C4_Witness ==
    /\ fd = "open"
    /\ \E t \in Threads :
        /\ pc[t] = "failed"
        /\ Len(calls[t]) = 2
        /\ InTestUnit(t, 1) /\ InTestUnit(t, 2)
        /\ Text(BytesOfThread(stderr, t)) = LineOf(t, 1) \o LineOf(t, 2)

\* C5: the test-mode flag of a unit never changes, and all invocations at
\* call sites of one unit, by whatever thread, take the same branch.
C5_FlagIsFixed ==
    /\ [][isTest' = isTest]_vars
    /\ [](\A i1 \in Invocations, i2 \in Invocations :
            SiteOf(i1[1], i1[2]).unit = SiteOf(i2[1], i2[2]).unit =>
                calls[i1[1]][i1[2]].took = calls[i2[1]][i2[2]].took)

C5_Witness ==
    /\ isTest["testlog"]
    /\ \E t1 \in Threads, t2 \in Threads :
        /\ t1 # t2
        /\ Len(calls[t1]) = 1 /\ Len(calls[t2]) = 1
        /\ calls[t1][1] = [site |-> "info", took |-> TRUE]
        /\ calls[t2][1] = [site |-> "multi", took |-> TRUE]
        /\ Returned(t1, 1) /\ Returned(t2, 1)

\* C6: an invocation takes the emitting branch if and only if the unit of
\* its own call site is built in test mode, whatever the flags of the other
\* units; while standard error takes the writes, an invocation that has
\* returned has bytes on standard error if and only if the unit of its call
\* site is built in test mode.
C6_PerUnitScoping ==
    \A <<t, k>> \in Invocations :
        /\ calls[t][k].took = InTestUnit(t, k)
        /\ (fd = "open" /\ Returned(t, k)) =>
                (BytesOf(stderr, t, k) # <<>>) = InTestUnit(t, k)

C6_Witness ==
    /\ fd = "open"
    /\ ~isTest[DefiningUnit] /\ isTest["app"]
    /\ \E t \in Threads :
        /\ Len(calls[t]) = 2
        /\ Returned(t, 2)
        /\ calls[t][1].site = "info" /\ calls[t][2].site = "proc"
        /\ BytesOf(stderr, t, 1) = <<>>
        /\ BytesOf(stderr, t, 2) # <<>>

\* The step is a write attempt of thread t.
WriteStep(t) == pc[t] = "write" /\ (pc'[t] # pc[t] \/ idx'[t] # idx[t])

\* C7 as stated: no invocation ends with an error raised in its caller.
C7_WriteFailureNeverAbortsCaller == \A t \in Threads : pc[t] # "panicked"

\* C7 as amended: a write to a closed standard error is dropped without an
\* error and the invocation goes on to its end; a write that fails for
\* another reason (a full device) ends the invocation with a panic in the
\* caller, the lock released; a failed write is not attempted again and a
\* caller that panicked takes no further step.
C7_WriteFailure ==
    [][\A t \in Threads :
        /\ (WriteStep(t) /\ fd = "closed") =>
                /\ stderr' = stderr /\ stdout' = stdout
                /\ idx'[t] = idx[t] + 1
                /\ pc'[t] \in {"write", "unlock"}
        /\ (WriteStep(t) /\ fd = "full") =>
                /\ stderr' = stderr /\ stdout' = stdout
                /\ pc'[t] = "panicked"
                /\ lock' = NoThread
        /\ pc[t] = "panicked" =>
                /\ pc'[t] = "panicked" /\ idx'[t] = idx[t]
                /\ calls'[t] = calls[t]]_vars

C7_Witness ==
    /\ fd = "full"
    /\ lock = NoThread
    /\ \E t \in Threads :
        /\ pc[t] = "panicked"
        /\ Len(calls[t]) = 1
        /\ InTestUnit(t, 1)

\* No line on the stream is torn: the bytes of one invocation are adjacent.
Untorn(st) ==
    \A i \in 1..Len(st), j \in 1..Len(st) :
        (i < j /\ st[i].by = st[j].by /\ st[i].k = st[j].k) =>
            \A m \in i..j : st[m].by = st[i].by /\ st[m].k = st[i].k

\* C8: while standard error takes the writes, the bytes of one invocation
\* are never separated by bytes of another, every invocation in test mode
\* that has returned has its whole line on standard error and standard error
\* holds nothing else; and an invocation that has started returns (or ends
\* in the panic of a failed write).
C8_ConcurrentInvocations ==
    /\ [](fd = "open" =>
            /\ Untorn(stderr)
            /\ \A <<t, k>> \in Invocations :
                (Returned(t, k) /\ InTestUnit(t, k)) =>
                    Text(BytesOf(stderr, t, k)) = LineOf(t, k)
            /\ \A i \in 1..Len(stderr) :
                <<stderr[i].by, stderr[i].k>> \in Invocations)
    /\ \A t \in Threads : InCall(t) ~> ~InCall(t)

C8_Witness ==
    /\ fd = "open"
    /\ \A t \in Threads :
        /\ Len(calls[t]) = 1
        /\ Returned(t, 1)
        /\ InTestUnit(t, 1)
        /\ BytesOf(stderr, t, 1) # <<>>

\* C9: as long as every invocation made was at a call site of a unit not
\* built in test mode, the program and the same program with its call sites
\* removed cannot be told apart: same standard output, same standard error,
\* same effects of evaluated expressions, same position and end of every
\* thread.
C9_ZeroCostWhenDisabled ==
    (\A <<t, k>> \in Invocations : ~InTestUnit(t, k)) => Obs = stripped

C9_Witness ==
    /\ \A u \in Units : ~isTest[u]
    /\ stdout # <<>>
    /\ \E t \in Threads :
        /\ Len(calls[t]) = 1
        /\ calls[t][1].site = "proc"
        /\ pc[t] = "failed"

\* C10: while standard error takes the writes, whenever a thread is at a
\* statement of its own (no invocation under way), the bytes of its
\* invocations on standard error are the lines of its invocations in test
\* mode, one per invocation, whole, in the order the invocations were made.
C10_PerThreadOrder ==
    fd = "open" =>
        \A t \in Threads :
            pc[t] \in {"ready", "done", "failed"} =>
                Text(BytesOfThread(stderr, t)) = LinesUpTo(t, Len(calls[t]))

C10_Witness ==
    /\ fd = "open"
    /\ \E t \in Threads :
        /\ pc[t] = "ready"
        /\ Len(calls[t]) = 2
        /\ calls[t][1].site = "multi" /\ calls[t][2].site = "info"
        /\ InTestUnit(t, 1)
        /\ Text(BytesOfThread(stderr, t)) = LineMultiple42Test \o LineDebugInfo5

====
